---- MODULE Spec2Model ----
(***************************************************************************)
(* Zakat-Logbook: generate_zakat_tracker.py writes a workbook whose whole  *)
(* logic is the formulas it puts into the cells.  The state of the program *)
(* is the content of the input cells (register rows, asset snapshots,      *)
(* ledger rows, search needle, report selectors); every derived field is   *)
(* a formula over those cells and is modelled as an operator that computes *)
(* what the formula computes, cell values included:                        *)
(*   Empty    an input cell nobody has filled,                             *)
(*   Num(n)   a number (dates are day serials),                            *)
(*   Txt(s)   a text, s a sequence of characters; Txt(<<>>) is the ""      *)
(*            a formula returns,                                           *)
(*   Err      an error value (#VALUE!, #NUM!, #N/A).                       *)
(* Formulas over ranges are evaluated element by element (array            *)
(* evaluation).  Money is counted in whole units; the inputs are chosen so *)
(* that 2.5 % of a net-asset value and price * 2.7315 are whole numbers.   *)
(***************************************************************************)
EXTENDS Integers, Sequences, FiniteSets, TLC

\* ------------------------------------------------------------------ bounds
\* Rows of the Zakat Summary register (SD_S..SD_E, 10 in the workbook).
SummaryRows == 3
\* Rows of the Ledger (LD_S..LD_E, 200 in the workbook).
LedgerRows == 3
\* Rows of each asset sheet (rows 4..13, 10 in the workbook).
SnapshotRows == 2
\* Rows of the report detail table (rows 42..141, 100 in the workbook).
DetailRows == 2
\* Type slots and service slots of the Settings sheet (30 each).
SettingsSlots == 3
\* Ledger rows filled while the register is exercised (Spec).
PaymentRows == 2

\* ------------------------------------------------------------ cell values
Empty == [t |-> "empty"]
Num(n) == [t |-> "num", n |-> n]
Txt(s) == [t |-> "txt", s |-> s]
Err == [t |-> "err"]

IsNum(v) == v.t = "num"
IsTxt(v) == v.t = "txt"
IsErr(v) == v.t = "err"

\* The comparison  v = ""  of a formula: true of an unfilled cell and of "".
EqEmptyStr(v) == v = Empty \/ v = Txt(<<>>)

\* A value used as an operand of + - * : an unfilled cell counts 0, a text
\* (the "" of a formula included) gives #VALUE!, an error stays an error.
ToNum(v) == IF IsNum(v) THEN v ELSE IF v = Empty THEN Num(0) ELSE Err

Plus(a, b) ==
  LET x == ToNum(a)
      y == ToNum(b)
  IN  IF IsErr(x) \/ IsErr(y) THEN Err ELSE Num(x.n + y.n)
Minus(a, b) ==
  LET x == ToNum(a)
      y == ToNum(b)
  IN  IF IsErr(x) \/ IsErr(y) THEN Err ELSE Num(x.n - y.n)
Times(a, b) ==
  LET x == ToNum(a)
      y == ToNum(b)
  IN  IF IsErr(x) \/ IsErr(y) THEN Err ELSE Num(x.n * y.n)

\* Text comparison of the workbook ( = , SUMIF/COUNTIF criteria, SEARCH)
\* ignores letter case.
UpperLetters ==
  <<"A", "B", "C", "D", "E", "F", "G", "H", "I", "J", "K", "L", "M",
    "N", "O", "P", "Q", "R", "S", "T", "U", "V", "W", "X", "Y", "Z">>
LowerLetters ==
  <<"a", "b", "c", "d", "e", "f", "g", "h", "i", "j", "k", "l", "m",
    "n", "o", "p", "q", "r", "s", "t", "u", "v", "w", "x", "y", "z">>
UpperToLower ==
  [c \in {UpperLetters[k] : k \in 1..26} |->
     LowerLetters[CHOOSE k \in 1..26 : UpperLetters[k] = c]]
LowerChar(c) == IF c \in DOMAIN UpperToLower THEN UpperToLower[c] ELSE c
Lower(s) == [k \in 1..Len(s) |-> LowerChar(s[k])]
\* Two character sequences are the same text but for letter case.
SameText(s, u) ==
  s = u \/ (Len(s) = Len(u) /\ \A k \in 1..Len(s) : LowerChar(s[k]) = LowerChar(u[k]))

\* a = b  between two cells: numbers by value, texts ignoring case, an
\* unfilled cell equals 0 and "".
CellEq(a, b) ==
  CASE IsNum(a) /\ IsNum(b) -> a.n = b.n
    [] IsTxt(a) /\ IsTxt(b) -> SameText(a.s, b.s)
    [] a = Empty /\ b = Empty -> TRUE
    [] a = Empty /\ IsNum(b) -> b.n = 0
    [] IsNum(a) /\ b = Empty -> a.n = 0
    [] a = Empty /\ IsTxt(b) -> b.s = <<>>
    [] IsTxt(a) /\ b = Empty -> a.s = <<>>
    [] OTHER -> FALSE

\* ------------------------------------------------------------ texts used
Zakat == Txt(<<"Z", "a", "k", "a", "t">>)
Sadaqah == Txt(<<"S", "a", "d", "a", "q", "a", "h">>)
AllYears == Txt(<<"A", "l", "l", " ", "Y", "e", "a", "r", "s">>)
Fitrana == Txt(<<"F", "i", "t", "r", "a", "n", "a">>)
Qurbani == Txt(<<"Q", "u", "r", "b", "a", "n", "i">>)
Remitly == Txt(<<"R", "e", "m", "i", "t", "l", "y">>)
Wise == Txt(<<"W", "i", "s", "e">>)
BankTransfer ==
  Txt(<<"B", "a", "n", "k", " ", "T", "r", "a", "n", "s", "f", "e", "r">>)
Cash == Txt(<<"C", "a", "s", "h">>)
Zelle == Txt(<<"Z", "e", "l", "l", "e">>)
\* The presets build_settings writes into the first slots.
preset_types == <<Zakat, Sadaqah, Fitrana, Qurbani>>
preset_services == <<Remitly, Wise, BankTransfer, Cash, Zelle>>
Dash == Txt(<<"-">>)

\* Day serials: 45291 is 2023-12-31, 45292 is 2024-01-01.
Dates == {45291, 45292}

\* ------------------------------------------------------------------ state
VARIABLES
  goldNisabOz,  \* Settings!D44, in 1/10000 troy oz
  assets,       \* Stocks, Cash, Debts: rows 4..13, date and six accounts
  zk,           \* Zakat Summary rows 5..14: columns A (date), E, F
  ledger,       \* Ledger rows 6..205: columns A..G
  needle,       \* Ledger!C1
  selPerson,    \* Reports!C4
  selYear,      \* Reports!C5
  today,        \* what TODAY() returns
  typeSlots,    \* Settings!B5:B34
  serviceSlots, \* Settings!D5:D34
  prior         \* the register's cells as they stood before the payment
                \* appended last, kept to compare them with the cells after

vars ==
  <<goldNisabOz, assets, zk, ledger, needle, selPerson, selYear, today,
    typeSlots, serviceSlots, prior>>

Kinds == {"Stocks", "Cash", "Debts"}
Accounts == 1..6

EmptySnapshot == [date |-> Empty, balances |-> [a \in Accounts |-> Empty]]
EmptyRecord == [date |-> Empty, goldPrice |-> Empty, goldOz |-> Empty]
EmptyEntry ==
  [date |-> Empty, type |-> Empty, service |-> Empty, recipient |-> Empty,
   notes |-> Empty, amount |-> Empty, fees |-> Empty]
\* No payment appended since the register or the ledger was last edited.
NoAppend == [row |-> 0, cells |-> <<>>]

\* The workbook as main() saves it: the Nisab weight preset, every data row
\* unfilled, the search box "", no person selected, the year filter preset.
Init ==
  /\ goldNisabOz = Num(27315)
  /\ assets = [k \in Kinds |-> [r \in 1..SnapshotRows |-> EmptySnapshot]]
  /\ zk = [i \in 1..SummaryRows |-> EmptyRecord]
  /\ ledger = [r \in 1..LedgerRows |-> EmptyEntry]
  /\ needle = Txt(<<>>)
  /\ selPerson = Txt(<<>>)
  /\ selYear = AllYears
  /\ today = Num(45292)
  /\ typeSlots = [i \in 1..SettingsSlots |->
                    IF i <= Len(preset_types) THEN preset_types[i] ELSE Txt(<<>>)]
  /\ serviceSlots = [i \in 1..SettingsSlots |->
                       IF i <= Len(preset_services) THEN preset_services[i]
                       ELSE Txt(<<>>)]
  /\ prior = NoAppend

\* -------------------------------------------------------- range helpers
RECURSIVE SumSeq(_)
SumSeq(s) == IF s = <<>> THEN 0 ELSE s[1] + SumSeq(Tail(s))

\* A SUMIF/SUMIFS/COUNTIF criterion that is a text: the cell holds that
\* text, letter case ignored.
CritEq(cell, text) == IsTxt(cell) /\ IsTxt(text) /\ SameText(cell.s, text.s)
\* The criteria  ">"&x  and  "<="&x : only a number cell can satisfy them;
\* with x unfilled the criterion is the bare operator, which no number
\* cell satisfies.
CritGT(cell, x) == IsNum(cell) /\ IsNum(x) /\ cell.n > x.n
CritLE(cell, x) == IsNum(cell) /\ IsNum(x) /\ cell.n <= x.n

\* --------------------------------------------------------------- Ledger
\* H: Total Paid   =IF(F+G=0,"",F+G)
totalPaid(r) ==
  LET sum == Plus(ledger[r].amount, ledger[r].fees)
  IN  IF CellEq(sum, Num(0)) THEN Txt(<<>>) ELSE sum

\* The numeric content of a cell as SUM, SUMIF and SUMIFS add it: numbers
\* only, texts and unfilled cells are skipped.
Summand(v) == IF IsNum(v) THEN v.n ELSE 0

\* ---------------------------------------------------------- asset sheets
\* H: =SUM(B:G) of a snapshot row.
snapshotTotal(k, r) ==
  SumSeq([a \in Accounts |-> Summand(assets[k][r].balances[a])])

\* Variant: the date looked up as MATCH(A,sheet!$A$4:$A$13,1) would on
\* dates in rising order, taking the last snapshot dated on or before A.
totalFor_onOrBefore(k, d) ==
  LET hits == {r \in 1..SnapshotRows :
                 IsNum(d) /\ IsNum(assets[k][r].date) /\ assets[k][r].date.n <= d.n}
  IN  IF hits = {} THEN Num(0)
      ELSE Num(snapshotTotal(k, CHOOSE r \in hits : \A q \in hits : q <= r))

\* =IFERROR(INDEX(sheet!$A$1:$H$13,MATCH(A,sheet!$A$4:$A$13,0)+3,
\*                MATCH(<total header>,sheet!$A$3:$H$3,0)),0)
\* MATCH(...,0) finds the first row whose date equals A; no row: #N/A -> 0.
totalFor(k, d) ==
  LET hits == {r \in 1..SnapshotRows : IsNum(d) /\ assets[k][r].date = d}
  IN  IF hits = {} THEN Num(0)
      ELSE Num(snapshotTotal(k, CHOOSE r \in hits : \A q \in hits : r <= q))

\* -------------------------------------------------------- Zakat Summary
stockTotal(i) == totalFor("Stocks", zk[i].date)
cashTotal(i) == totalFor("Cash", zk[i].date)
debtTotal(i) == totalFor("Debts", zk[i].date)

\* G: =IF(OR(E="",F=""),0,E*F)
goldValue(i) ==
  IF EqEmptyStr(zk[i].goldPrice) \/ EqEmptyStr(zk[i].goldOz) THEN Num(0)
  ELSE Times(zk[i].goldPrice, zk[i].goldOz)

\* Variant: the debts added instead of subtracted.
netAssets_plusDebts(i) ==
  IF EqEmptyStr(zk[i].date) THEN Txt(<<>>)
  ELSE Plus(Plus(Plus(stockTotal(i), cashTotal(i)), goldValue(i)), debtTotal(i))

\* H: =IF(A="","",B+C+G-D)
netAssets(i) ==
  IF EqEmptyStr(zk[i].date) THEN Txt(<<>>)
  ELSE Minus(Plus(Plus(stockTotal(i), cashTotal(i)), goldValue(i)), debtTotal(i))

\* I: =IF(OR(A="",E=""),0,E*Settings!$D$44)     (D44 kept in 1/10000 oz)
nisabThreshold(i) ==
  IF EqEmptyStr(zk[i].date) \/ EqEmptyStr(zk[i].goldPrice) THEN Num(0)
  ELSE Num(Times(zk[i].goldPrice, goldNisabOz).n \div 10000)

\* Variant: the Nisab test taken strictly (H>I).
zakatDue_strict(i) ==
  IF EqEmptyStr(zk[i].date) THEN Txt(<<>>)
  ELSE LET h == netAssets(i)
       IN  IF h.n > nisabThreshold(i).n THEN Num((h.n * 25) \div 1000) ELSE Num(0)

\* J: =IF(A="","",IF(H>=I,H*0.025,0))
zakatDue(i) ==
  IF EqEmptyStr(zk[i].date) THEN Txt(<<>>)
  ELSE LET h == netAssets(i)
       IN  IF h.n >= nisabThreshold(i).n THEN Num((h.n * 25) \div 1000) ELSE Num(0)

\* Variant: the lower end of the window included (">="&A(prev)).
k_formula_closed(i) ==
  IF EqEmptyStr(zk[i].date) THEN Txt(<<>>)
  ELSE Num(SumSeq([r \in 1..LedgerRows |->
         IF /\ CritEq(ledger[r].type, Zakat)
            /\ (i = 1 \/ CritGT(ledger[r].date, zk[i - 1].date)
                      \/ ledger[r].date = zk[i - 1].date)
            /\ CritLE(ledger[r].date, zk[i].date)
         THEN Summand(totalPaid(r)) ELSE 0]))

\* Variant: the payments of every type counted.
k_formula_allTypes(i) ==
  IF EqEmptyStr(zk[i].date) THEN Txt(<<>>)
  ELSE Num(SumSeq([r \in 1..LedgerRows |->
         IF /\ (i = 1 \/ CritGT(ledger[r].date, zk[i - 1].date))
            /\ CritLE(ledger[r].date, zk[i].date)
         THEN Summand(totalPaid(r)) ELSE 0]))

\* Variant: no lower end in any row (every payment up to the row's date).
k_formula_cumulative(i) ==
  IF EqEmptyStr(zk[i].date) THEN Txt(<<>>)
  ELSE Num(SumSeq([r \in 1..LedgerRows |->
         IF /\ CritEq(ledger[r].type, Zakat)
            /\ CritLE(ledger[r].date, zk[i].date)
         THEN Summand(totalPaid(r)) ELSE 0]))

\* K: =IF(A="","",SUMIFS(Ledger!H,Ledger!B,"Zakat",[Ledger!A,">"&A(prev),]
\*                       Ledger!A,"<="&A))    (no ">" criterion in row 5)
k_formula(i) ==
  IF EqEmptyStr(zk[i].date) THEN Txt(<<>>)
  ELSE Num(SumSeq([r \in 1..LedgerRows |->
         IF /\ CritEq(ledger[r].type, Zakat)
            /\ (i = 1 \/ CritGT(ledger[r].date, zk[i - 1].date))
            /\ CritLE(ledger[r].date, zk[i].date)
         THEN Summand(totalPaid(r)) ELSE 0]))

\* L: =IF(A="","",J-IF(K="",0,K)[+IF(OR(L(prev)="",A(prev)=""),0,L(prev))])
RECURSIVE l_formula(_)
\* Variant: rows without a date skipped, the balance of the nearest dated
\* row above carried.
l_formula_skipGap(i) ==
  IF EqEmptyStr(zk[i].date) THEN Txt(<<>>)
  ELSE LET k == k_formula(i)
           own == Minus(zakatDue(i), IF EqEmptyStr(k) THEN Num(0) ELSE k)
           above == {j \in 1..(i - 1) : ~EqEmptyStr(zk[j].date)}
       IN  IF above = {} THEN own
           ELSE Plus(own, l_formula(CHOOSE j \in above : \A q \in above : q <= j))

\* Variant: the carried balance clamped at 0 (MAX(0,L(prev))).
l_formula_clamped(i) ==
  IF EqEmptyStr(zk[i].date) THEN Txt(<<>>)
  ELSE LET k == k_formula(i)
           own == Minus(zakatDue(i), IF EqEmptyStr(k) THEN Num(0) ELSE k)
           prev == l_formula(i - 1)
       IN  IF i = 1 THEN own
           ELSE Plus(own, IF EqEmptyStr(prev) \/ EqEmptyStr(zk[i - 1].date) \/ prev.n < 0
                          THEN Num(0) ELSE prev)

l_formula(i) ==
  IF EqEmptyStr(zk[i].date) THEN Txt(<<>>)
  ELSE LET k == k_formula(i)
           own == Minus(zakatDue(i), IF EqEmptyStr(k) THEN Num(0) ELSE k)
           prev == l_formula(i - 1)
       IN  IF i = 1 THEN own
           ELSE Plus(own, IF EqEmptyStr(prev) \/ EqEmptyStr(zk[i - 1].date)
                          THEN Num(0) ELSE prev)

StatusNA == Txt(<<"N/A">>)
StatusPaidInFull == Txt(<<"Paid in Full">>)
StatusNotStarted == Txt(<<"Not Started">>)
StatusPartiallyPaid == Txt(<<"Partially Paid">>)

\* Variant: the balance looked at before the amount due.
status_balanceFirst(i) ==
  IF EqEmptyStr(zk[i].date) THEN Txt(<<>>)
  ELSE IF ToNum(l_formula(i)).n <= 0 THEN StatusPaidInFull
  ELSE IF CellEq(zakatDue(i), Num(0)) THEN StatusNA
  ELSE IF CellEq(k_formula(i), Num(0)) THEN StatusNotStarted
  ELSE StatusPartiallyPaid

\* M: =IF(A="","",IF(J=0,"N/A",IF(L<=0,"Paid in Full",
\*                  IF(K=0,"Not Started","Partially Paid"))))
status(i) ==
  IF EqEmptyStr(zk[i].date) THEN Txt(<<>>)
  ELSE IF CellEq(zakatDue(i), Num(0)) THEN StatusNA
  ELSE IF l_formula(i).n <= 0 THEN StatusPaidInFull
  ELSE IF CellEq(k_formula(i), Num(0)) THEN StatusNotStarted
  ELSE StatusPartiallyPaid

\* Variant: the previous balance carried without MAX(0, ).
n_formula_unclamped(i) ==
  IF EqEmptyStr(zk[i].date) THEN Txt(<<>>)
  ELSE IF i = 1 THEN Num(0)
  ELSE LET prev == l_formula(i - 1)
       IN  IF EqEmptyStr(prev) THEN Num(0) ELSE prev

\* Variant: the size of the previous balance carried (ABS for MAX(0, )).
n_formula_magnitude(i) ==
  IF EqEmptyStr(zk[i].date) THEN Txt(<<>>)
  ELSE IF i = 1 THEN Num(0)
  ELSE LET prev == l_formula(i - 1)
       IN  IF EqEmptyStr(prev) THEN Num(0)
           ELSE IF prev.n > 0 THEN prev ELSE Num(0 - prev.n)

\* N: =IF(A="","",0) in row 5, =IF(A="","",IF(L(prev)="",0,MAX(0,L(prev))))
n_formula(i) ==
  IF EqEmptyStr(zk[i].date) THEN Txt(<<>>)
  ELSE IF i = 1 THEN Num(0)
  ELSE LET prev == l_formula(i - 1)
       IN  IF EqEmptyStr(prev) THEN Num(0)
           ELSE IF prev.n > 0 THEN prev ELSE Num(0)

\* The derived cells H..N of register row i.
RegisterCells(i) ==
  [netAssets |-> netAssets(i), nisabThreshold |-> nisabThreshold(i),
   zakatDue |-> zakatDue(i), paidThisPeriod |-> k_formula(i),
   runningBalance |-> l_formula(i), status |-> status(i),
   broughtForward |-> n_formula(i)]

\* Variant: only the rows above and the row itself counted.
duplicateDate_above(i) ==
  /\ ~EqEmptyStr(zk[i].date)
  /\ Cardinality({j \in 1..i : IsNum(zk[j].date) /\ zk[j].date = zk[i].date}) > 1

\* Conditional format of A5:A14: AND(A5<>"",COUNTIF($A$5:$A$14,A5)>1), for
\* the row of the cell; COUNTIF with a date counts the cells holding it.
duplicateDate(i) ==
  /\ ~EqEmptyStr(zk[i].date)
  /\ Cardinality({j \in 1..SummaryRows :
                    IsNum(zk[j].date) /\ zk[j].date = zk[i].date}) > 1

\* ----------------------------------------------------------- Hawl tracker
NoDatesYet == Txt(<<"No dates yet">>)
HawlDueNow == Txt(<<"Zakat Due Now!">>)
HawlDueSoon == Txt(<<"Due Soon (< 30 days)">>)
HawlInProgress == Txt(<<"Hawl in progress">>)

\* A: =IF(COUNTA(A5:A14)=0,"No dates yet",MAX(A5:A14))
\* COUNTA counts the filled cells; MAX takes the numbers of the range, 0
\* when there is none.
hawlLastDate ==
  LET filled == {i \in 1..SummaryRows : zk[i].date # Empty}
      nums == {zk[i].date.n : i \in {j \in 1..SummaryRows : IsNum(zk[j].date)}}
  IN  IF filled = {} THEN NoDatesYet
      ELSE IF nums = {} THEN Num(0)
      ELSE Num(CHOOSE d \in nums : \A e \in nums : e <= d)

\* C: =IF(A="No dates yet","",A+354)
hawlNextDue ==
  IF CellEq(hawlLastDate, NoDatesYet) THEN Txt(<<>>)
  ELSE Plus(hawlLastDate, Num(354))

\* E: =IF(C="","",MAX(0,C-TODAY()))
hawlDaysRemaining ==
  LET c == hawlNextDue
  IN  IF EqEmptyStr(c) THEN Txt(<<>>)
      ELSE LET left == Minus(c, today)
           IN  IF left.n > 0 THEN left ELSE Num(0)

\* Variant: the last day of the warning taken as C-TODAY()<30.
hawlStatus_under30 ==
  LET c == hawlNextDue
  IN  IF EqEmptyStr(c) THEN Txt(<<>>)
      ELSE IF today.n > c.n THEN HawlDueNow
      ELSE IF Minus(c, today).n < 30 THEN HawlDueSoon
      ELSE HawlInProgress

\* G: =IF(C="","",IF(TODAY()>C,"Zakat Due Now!",
\*       IF(C-TODAY()<=30,"Due Soon (< 30 days)","Hawl in progress")))
hawlStatus ==
  LET c == hawlNextDue
  IN  IF EqEmptyStr(c) THEN Txt(<<>>)
      ELSE IF today.n > c.n THEN HawlDueNow
      ELSE IF Minus(c, today).n <= 30 THEN HawlDueSoon
      ELSE HawlInProgress

\* -------------------------------------------------------------- actions
\* The user fills or overwrites the input cells A, E, F of register row i.
UpsertRecord(i, d, p, o) ==
  /\ zk' = [zk EXCEPT ![i] = [date |-> d, goldPrice |-> p, goldOz |-> o]]
  /\ UNCHANGED <<goldNisabOz, assets, ledger, needle, selPerson, selYear,
               today, typeSlots, serviceSlots>>
  /\ prior' = NoAppend

\* amt_dv: columns F and G accept a decimal >= 0 or nothing.
ValidAmount(v) == v = Empty \/ (IsNum(v) /\ v.n >= 0)

\* The user fills or overwrites the input cells A..G of ledger row r; an
\* entry whose amount or fee fails amt_dv is refused by the sheet.
SetEntry(r, e) ==
  /\ ValidAmount(e.amount)
  /\ ValidAmount(e.fees)
  /\ ledger' = [ledger EXCEPT ![r] = e]
  /\ UNCHANGED <<goldNisabOz, assets, zk, needle, selPerson, selYear,
               today, typeSlots, serviceSlots>>
  /\ prior' = NoAppend

\* A payment is appended: the user fills a ledger row that was unfilled.
\* The cells of the row and of the register are noted as they stand before.
AppendEntry(r, e) ==
  /\ ledger[r] = EmptyEntry
  /\ e # EmptyEntry
  /\ ValidAmount(e.amount)
  /\ ValidAmount(e.fees)
  /\ ledger' = [ledger EXCEPT ![r] = e]
  /\ prior' = [row |-> r, cells |-> [i \in 1..SummaryRows |-> RegisterCells(i)]]
  /\ UNCHANGED <<goldNisabOz, assets, zk, needle, selPerson, selYear,
               today, typeSlots, serviceSlots>>

\* The same edit where the sheet raises no alert: amt_dv is created without
\* showErrorMessage, which the library then leaves off, and values pasted
\* into the cells are not validated at all.  The entry is stored as it is.
EnterUnchecked(r, e) ==
  /\ ledger' = [ledger EXCEPT ![r] = e]
  /\ UNCHANGED <<goldNisabOz, assets, zk, needle, selPerson, selYear,
               today, typeSlots, serviceSlots>>
  /\ prior' = NoAppend

\* The user fills or overwrites row r of the Stocks, Cash or Debts sheet.
SetSnapshot(k, r, d, b) ==
  /\ assets' = [assets EXCEPT ![k][r] = [date |-> d, balances |-> b]]
  /\ UNCHANGED <<goldNisabOz, zk, ledger, needle, selPerson, selYear,
               today, typeSlots, serviceSlots>>
  /\ prior' = NoAppend

\* The user edits Settings!D44.
SetNisabOz(v) ==
  /\ goldNisabOz' = v
  /\ UNCHANGED <<assets, zk, ledger, needle, selPerson, selYear,
               today, typeSlots, serviceSlots>>
  /\ prior' = NoAppend

\* The workbook is recalculated on a later day: TODAY() returns t.
NewDay(t) ==
  /\ t.n > today.n
  /\ today' = t
  /\ UNCHANGED <<goldNisabOz, assets, zk, ledger, needle, selPerson, selYear,
               typeSlots, serviceSlots, prior>>

\* ------------------------------------------ register and ledger together
\* Inputs: a register row is unfilled, or dated with or without gold
\* (2000 a troy oz, 3 oz: net assets 6000, Nisab 5463, due 150).
GoldPrice == Num(2000)
GoldOz == Num(3)
RecordInputs ==
  {EmptyRecord}
    \cup {[date |-> Num(d), goldPrice |-> g[1], goldOz |-> g[2]] :
            d \in Dates, g \in {<<Empty, Empty>>, <<GoldPrice, GoldOz>>}}

\* A payment: a Zakat payment of 50 on 2023-12-31, a Zakat payment of
\* 140 + 10 fee on 2024-01-01, a Sadaqah payment; -100 is what amt_dv
\* refuses.
Payment(d, ty, a, f) ==
  [EmptyEntry EXCEPT !.date = Num(d), !.type = ty, !.amount = a, !.fees = f]
PaymentInputs ==
  {EmptyEntry,
   Payment(45291, Zakat, Num(50), Empty),
   Payment(45292, Zakat, Num(140), Num(10)),
   Payment(45292, Sadaqah, Num(50), Empty),
   Payment(45291, Zakat, Num(-100), Empty)}

Next ==
  \/ \E i \in 1..SummaryRows, rec \in RecordInputs :
       UpsertRecord(i, rec.date, rec.goldPrice, rec.goldOz)
  \/ \E r \in 1..PaymentRows, e \in PaymentInputs : SetEntry(r, e)

Spec == Init /\ [][Next]_vars

\* ------------------------------------------- register and asset sheets
\* Columns B..J of a register row read that row and the asset sheets only,
\* so one register row is filled here, with each of its gold cells filled or
\* not, against every filling of the three sheets.
AssetRecordInputs ==
  {EmptyRecord, [date |-> Num(45292), goldPrice |-> GoldPrice, goldOz |-> GoldOz]}
    \cup {[date |-> Num(45291), goldPrice |-> p, goldOz |-> o] :
            p \in {Empty, GoldPrice}, o \in {Empty, GoldOz}}

Balances(b) == [a \in Accounts |-> IF a \in DOMAIN b THEN b[a] ELSE Empty]
BalanceInputs(k) ==
  CASE k = "Stocks" -> {Balances(<<Num(1000)>>),
                        Balances(<<Empty, Num(400), Empty, Empty, Empty, Num(640)>>)}
    [] k = "Cash" -> {Balances(<<Num(4000), Num(200)>>), Balances(<<Num(5000)>>)}
    [] k = "Debts" -> {Balances(<<Num(120), Empty, Empty, Empty, Empty, Num(80)>>)}
\* A snapshot row is unfilled or holds a snapshot of 2023-12-31; a register
\* row of 2024-01-01 finds none.
SnapshotInputs(k) ==
  {EmptySnapshot} \cup {[date |-> Num(45291), balances |-> b] : b \in BalanceInputs(k)}

\* Settings!D44 holds its preset, 2.7315 oz, or 2.5 oz.
NisabOzInputs == {Num(27315), Num(25000)}

AssetNext ==
  \/ \E v \in NisabOzInputs : SetNisabOz(v)
  \/ \E rec \in AssetRecordInputs :
       UpsertRecord(1, rec.date, rec.goldPrice, rec.goldOz)
  \/ \E k \in Kinds, r \in 1..SnapshotRows :
       \E sn \in SnapshotInputs(k) : SetSnapshot(k, r, sn.date, sn.balances)

AssetSpec == Init /\ [][AssetNext]_vars

\* ------------------------------------------------- Ledger: running total
\* I: =IF(H="","",H) in row 6,
\*    =IF(H="","",IF(I(prev)="",H,I(prev)+H)) below.
RECURSIVE ri_formula(_)
ri_formula(r) ==
  LET h == totalPaid(r)
  IN  IF EqEmptyStr(h) THEN Txt(<<>>)
      ELSE IF r = 1 THEN h
      ELSE LET prev == ri_formula(r - 1)
           IN  IF EqEmptyStr(prev) THEN h ELSE Plus(prev, h)

\* ----------------------------------------------------------- Ledger: search
\* The text SEARCH looks into: a text as it is, an unfilled cell as "".
TextOf(v) == IF IsTxt(v) THEN v.s ELSE <<>>

\* SEARCH(find,within): the first position at which find occurs in within,
\* letter case ignored; #VALUE! when it occurs nowhere.
SEARCH(find, within) ==
  LET f == Lower(TextOf(find))
      w == Lower(TextOf(within))
      at == {k \in 1..(Len(w) - Len(f) + 1) : SubSeq(w, k, k + Len(f) - 1) = f}
  IN  IF at = {} THEN Err ELSE Num(CHOOSE k \in at : \A j \in at : k <= j)

\* Variant: the service column searched too.
hl_formula_withService(r) ==
  /\ ~EqEmptyStr(needle)
  /\ \/ IsNum(SEARCH(needle, ledger[r].recipient))
     \/ IsNum(SEARCH(needle, ledger[r].notes))
     \/ IsNum(SEARCH(needle, ledger[r].type))
     \/ IsNum(SEARCH(needle, ledger[r].service))

\* =AND($C$1<>"",OR(ISNUMBER(SEARCH($C$1,$D)),ISNUMBER(SEARCH($C$1,$E)),
\*                  ISNUMBER(SEARCH($C$1,$B))))       for the row of the cell
hl_formula(r) ==
  /\ ~EqEmptyStr(needle)
  /\ \/ IsNum(SEARCH(needle, ledger[r].recipient))
     \/ IsNum(SEARCH(needle, ledger[r].notes))
     \/ IsNum(SEARCH(needle, ledger[r].type))

\* A number written out in decimal digits, as & joins it to a text.
DigitChar == <<"0", "1", "2", "3", "4", "5", "6", "7", "8", "9">>
RECURSIVE DigitsOf(_)
DigitsOf(n) ==
  IF n < 10 THEN <<DigitChar[n + 1]>>
  ELSE DigitsOf(n \div 10) \o <<DigitChar[(n % 10) + 1]>>

\* COUNTIF(range,"*"&$C$1&"*") over one column of the ledger: the text
\* cells of the column that hold the needle, letter case ignored.
CountHolding(f) ==
  Cardinality({r \in 1..LedgerRows :
                 IsTxt(ledger[r][f]) /\ IsNum(SEARCH(needle, ledger[r][f]))})

AllEntriesShown ==
  Txt(<<"A", "l", "l", " ", "e", "n", "t", "r", "i", "e", "s", " ",
        "s", "h", "o", "w", "n">>)
MatchingRowsHighlighted ==
  <<" ", "m", "a", "t", "c", "h", "i", "n", "g", " ", "r", "o", "w", "s", " ",
    "h", "i", "g", "h", "l", "i", "g", "h", "t", "e", "d">>

\* A2: =IF(C1="","All entries shown",COUNTIF(D,"*"&C1&"*")+
\*       COUNTIF(E,"*"&C1&"*")+COUNTIF(B,"*"&C1&"*")&" matching rows highlighted")
search_count ==
  IF EqEmptyStr(needle) THEN AllEntriesShown
  ELSE Txt(DigitsOf(CountHolding("recipient") + CountHolding("notes")
                      + CountHolding("type"))
             \o MatchingRowsHighlighted)

\* ------------------------------------------------------------------ Reports
\* YEAR of a day serial (serials after 1900-02-28): the civil year of the
\* day, counted from 1970-01-01 = serial 25569.
YearOfSerial(d) ==
  LET z == d - 25569 + 719468
      era == z \div 146097
      doe == z - era * 146097
      yoe == (doe - doe \div 1460 + doe \div 36524 - doe \div 146096) \div 365
      doy == doe - (365 * yoe + yoe \div 4 - yoe \div 100)
      mp == (5 * doy + 2) \div 153
  IN  yoe + era * 400 + (IF mp < 10 THEN 0 ELSE 1)

\* YEAR(cell): an unfilled cell is serial 0, year 1900; a text is #VALUE!.
YEAR(v) ==
  IF v = Empty THEN Num(1900)
  ELSE IF IsNum(v) THEN Num(YearOfSerial(v.n))
  ELSE Err

\* VALUE(cell): a number as it is, a text of digits as the number it
\* writes, an unfilled cell 0, any other text #VALUE!.
DigitValue ==
  [c \in {"0", "1", "2", "3", "4", "5", "6", "7", "8", "9"} |->
     CASE c = "0" -> 0 [] c = "1" -> 1 [] c = "2" -> 2 [] c = "3" -> 3
       [] c = "4" -> 4 [] c = "5" -> 5 [] c = "6" -> 6 [] c = "7" -> 7
       [] c = "8" -> 8 [] c = "9" -> 9]
RECURSIVE DigitsValue(_)
DigitsValue(s) ==
  IF s = <<>> THEN 0
  ELSE 10 * DigitsValue(SubSeq(s, 1, Len(s) - 1)) + DigitValue[s[Len(s)]]
VALUE(v) ==
  IF IsNum(v) THEN v
  ELSE IF v = Empty THEN Num(0)
  ELSE IF IsTxt(v) /\ v.s # <<>> /\ \A k \in 1..Len(v.s) : v.s[k] \in DOMAIN DigitValue
       THEN Num(DigitsValue(v.s))
  ELSE Err

\* TRUE and FALSE as factors of a product.
Flag(b) == IF b THEN Num(1) ELSE Num(0)

\* SUMPRODUCT of one array: the sum of its elements, an error if any
\* element is an error.
SUMPRODUCT(a) ==
  IF \E r \in DOMAIN a : IsErr(a[r]) THEN Err
  ELSE Num(SumSeq([r \in DOMAIN a |-> a[r].n]))

\* (YEAR(Ledger!A)=VALUE($C$5)) for ledger row r.
YearFlag(r) ==
  LET y == YEAR(ledger[r].date)
      v == VALUE(selYear)
  IN  IF IsErr(y) \/ IsErr(v) THEN Err ELSE Flag(y.n = v.n)

\* (Ledger!D=$C$4) for ledger row r.
PersonFlag(r) == Flag(CellEq(ledger[r].recipient, selPerson))

\* F4: =IF($C$4="","-",IF($C$5="All Years",SUMIF(Ledger!D,$C$4,Ledger!H),
\*       SUMPRODUCT((Ledger!D=$C$4)*(YEAR(Ledger!A)=VALUE($C$5))*Ledger!H)))
totalGiven ==
  IF EqEmptyStr(selPerson) THEN Dash
  ELSE IF CellEq(selYear, AllYears)
  THEN Num(SumSeq([r \in 1..LedgerRows |->
         IF CritEq(ledger[r].recipient, selPerson)
         THEN Summand(totalPaid(r)) ELSE 0]))
  ELSE SUMPRODUCT([r \in 1..LedgerRows |->
         Times(Times(PersonFlag(r), YearFlag(r)), totalPaid(r))])

\* I4: =IF($C$4="","-",IF($C$5="All Years",COUNTIF(Ledger!D,$C$4),
\*       SUMPRODUCT((Ledger!D=$C$4)*(YEAR(Ledger!A)=VALUE($C$5)))))
transactionCount ==
  IF EqEmptyStr(selPerson) THEN Dash
  ELSE IF CellEq(selYear, AllYears)
  THEN Num(SumSeq([r \in 1..LedgerRows |->
         IF CritEq(ledger[r].recipient, selPerson) THEN 1 ELSE 0]))
  ELSE SUMPRODUCT([r \in 1..LedgerRows |-> Times(PersonFlag(r), YearFlag(r))])

\* The array  (Ledger!D=$C$4)*IF($C$5="All Years",1,YEAR(Ledger!A)=
\* IF($C$5="All Years",0,VALUE($C$5)))  of the detail helper, row r.
DetailFlag(r) ==
  IF CellEq(selYear, AllYears) THEN PersonFlag(r)
  ELSE Times(PersonFlag(r), YearFlag(r))

\* L41..L140: =IFERROR(SMALL(IF(<flags>,ROW(Ledger!D)-ROW(Ledger!D6)+1),n),"")
\* the n-th smallest position whose flag is not 0; "" when there are fewer
\* than n or when a flag is an error.
detailHelper(n) ==
  LET hits == {r \in 1..LedgerRows : IsNum(DetailFlag(r)) /\ DetailFlag(r).n # 0}
  IN  IF \E r \in 1..LedgerRows : IsErr(DetailFlag(r)) THEN Txt(<<>>)
      ELSE IF Cardinality(hits) < n THEN Txt(<<>>)
      ELSE Num(CHOOSE r \in hits : Cardinality({q \in hits : q < r}) = n - 1)

\* The columns A..H of the Ledger shown in columns B..I of the detail table.
DetailFields ==
  {"date", "type", "service", "recipient", "notes", "amount", "fees", "totalPaid"}
LedgerCell(r, f) == IF f = "totalPaid" THEN totalPaid(r) ELSE ledger[r][f]

\* B42..I141: =IFERROR(IF($L="","",INDEX(Ledger!<col>,$L)),"-")
\* A formula whose result is an unfilled cell shows 0.
detailCell(n, f) ==
  LET l == detailHelper(n)
  IN  IF EqEmptyStr(l) THEN Txt(<<>>)
      ELSE LET v == LedgerCell(l.n, f)
           IN  IF v = Empty THEN Num(0) ELSE IF IsErr(v) THEN Dash ELSE v

\* ------------------------------------------------ Reports: breakdown by type
\* IF($C$5="All Years",1,YEAR(Ledger!A)=IF($C$5="All Years",0,VALUE($C$5)))
\* for ledger row r.
YearFactor(r) == IF CellEq(selYear, AllYears) THEN Num(1) ELSE YearFlag(r)

\* (Ledger!B=Settings!$B) for ledger row r and type slot i.
TypeFlag(r, i) == Flag(CellEq(ledger[r].type, typeSlots[i]))

\* Column A of rows 8..37: =IF(Settings!$B="","",Settings!$B)
breakdownType(i) ==
  IF EqEmptyStr(typeSlots[i]) THEN Txt(<<>>) ELSE typeSlots[i]

\* Column F of rows 8..37: =IF(Settings!$B="","",IF($C$4="","-",
\*   SUMPRODUCT((Ledger!D=$C$4)*(Ledger!B=Settings!$B)*<year factor>*Ledger!H)))
breakdownAmount(i) ==
  IF EqEmptyStr(typeSlots[i]) THEN Txt(<<>>)
  ELSE IF EqEmptyStr(selPerson) THEN Dash
  ELSE SUMPRODUCT([r \in 1..LedgerRows |->
         Times(Times(Times(PersonFlag(r), TypeFlag(r, i)), YearFactor(r)),
               totalPaid(r))])

\* F39, TOTAL (all types): =IF($C$4="","-",
\*   SUMPRODUCT((Ledger!D=$C$4)*<year factor>*Ledger!H))
allTypesTotal ==
  IF EqEmptyStr(selPerson) THEN Dash
  ELSE SUMPRODUCT([r \in 1..LedgerRows |->
         Times(Times(PersonFlag(r), YearFactor(r)), totalPaid(r))])

\* ---------------------------------------------------- Reports: fees by service
\* Column A: =IF(Settings!$D="","",Settings!$D)
serviceName(i) ==
  IF EqEmptyStr(serviceSlots[i]) THEN Txt(<<>>) ELSE serviceSlots[i]

\* Variant: the amounts of the selected person only.
serviceAmount_ofPerson(i) ==
  IF EqEmptyStr(serviceSlots[i]) THEN Txt(<<>>)
  ELSE Num(SumSeq([r \in 1..LedgerRows |->
         IF CritEq(ledger[r].service, serviceSlots[i])
            /\ CritEq(ledger[r].recipient, selPerson)
         THEN Summand(ledger[r].amount) ELSE 0]))

\* Column D: =IF(Settings!$D="","",SUMIF(Ledger!C,Settings!$D,Ledger!F))
serviceAmount(i) ==
  IF EqEmptyStr(serviceSlots[i]) THEN Txt(<<>>)
  ELSE Num(SumSeq([r \in 1..LedgerRows |->
         IF CritEq(ledger[r].service, serviceSlots[i])
         THEN Summand(ledger[r].amount) ELSE 0]))

\* Column F: =IF(Settings!$D="","",SUMIF(Ledger!C,Settings!$D,Ledger!G))
serviceFees(i) ==
  IF EqEmptyStr(serviceSlots[i]) THEN Txt(<<>>)
  ELSE Num(SumSeq([r \in 1..LedgerRows |->
         IF CritEq(ledger[r].service, serviceSlots[i])
         THEN Summand(ledger[r].fees) ELSE 0]))

\* Column H: =IF(Settings!$D="","",COUNTIF(Ledger!C,Settings!$D))
serviceCount(i) ==
  IF EqEmptyStr(serviceSlots[i]) THEN Txt(<<>>)
  ELSE Num(Cardinality({r \in 1..LedgerRows :
                          CritEq(ledger[r].service, serviceSlots[i])}))

\* ------------------------------------------------- search and report inputs
\* The user types into the search box Ledger!C1.
SetNeedle(v) ==
  /\ needle' = v
  /\ UNCHANGED <<goldNisabOz, assets, zk, ledger, selPerson, selYear,
               today, typeSlots, serviceSlots, prior>>

\* The user picks Reports!C4 from its list (person_dv): nothing, or a name
\* the Given To column holds.
SelectPerson(p) ==
  /\ p = Txt(<<>>) \/ \E r \in 1..LedgerRows : ledger[r].recipient = p
  /\ selPerson' = p
  /\ UNCHANGED <<goldNisabOz, assets, zk, ledger, needle, selYear,
               today, typeSlots, serviceSlots, prior>>

\* The user picks Reports!C5 from the year list (yr_dv).
SelectYear(y) ==
  /\ selYear' = y
  /\ UNCHANGED <<goldNisabOz, assets, zk, ledger, needle, selPerson,
               today, typeSlots, serviceSlots, prior>>

\* The user edits a service slot, Settings!D5..D34.
SetServiceSlot(i, v) ==
  /\ serviceSlots' = [serviceSlots EXCEPT ![i] = v]
  /\ UNCHANGED <<goldNisabOz, assets, zk, ledger, needle, selPerson, selYear,
               today, typeSlots, prior>>

\* The user edits a type slot, Settings!B5..B34.
SetTypeSlot(i, v) ==
  /\ typeSlots' = [typeSlots EXCEPT ![i] = v]
  /\ UNCHANGED <<goldNisabOz, assets, zk, ledger, needle, selPerson, selYear,
               today, serviceSlots, prior>>

Al == Txt(<<"A", "l">>)
AL == Txt(<<"A", "L">>)
Bo == Txt(<<"B", "o">>)
ForAl == Txt(<<"f", "o", "r", " ", "a", "l">>)

\* Ledger rows as users leave them: every cell filled; service, notes and
\* fees left out; an entry of amount 0; -1 as a fee is what amt_dv refuses.
Entry(d, ty, sv, to, nt, a, f) ==
  [date |-> Num(d), type |-> ty, service |-> sv, recipient |-> to,
   notes |-> nt, amount |-> a, fees |-> f]
EntryInputs ==
  {EmptyEntry,
   Entry(45291, Zakat, Wise, Al, ForAl, Num(10), Num(1)),
   Entry(45292, Zakat, Empty, AL, Empty, Num(5), Empty),
   Entry(45292, Sadaqah, Wise, Bo, Empty, Num(0), Empty),
   Entry(45291, Sadaqah, Empty, Bo, Empty, Num(20), Empty),
   Entry(45291, Zakat, Wise, Al, ForAl, Num(10), Num(-1))}

\* Needles: none, a name in capitals, a letter of "Zakat", a letter that
\* only a service holds.
NeedleInputs == {Txt(<<>>), AL, Txt(<<"z">>), Txt(<<"w">>)}

LedgerNext ==
  \/ \E r \in 1..LedgerRows, e \in EntryInputs : SetEntry(r, e)
  \/ \E v \in NeedleInputs : SetNeedle(v)

LedgerSpec == Init /\ [][LedgerNext]_vars

\* Year filters: the preset, a year typed as a number, a year kept as text.
YearInputs == {AllYears, Num(2023), Txt(<<"2", "0", "2", "4">>)}
PersonInputs == {Txt(<<>>), Al, AL, Bo}

ReportNext ==
  \/ \E r \in 1..LedgerRows, e \in EntryInputs : SetEntry(r, e)
  \/ \E p \in PersonInputs : SelectPerson(p)
  \/ \E y \in YearInputs : SelectYear(y)

ReportSpec == Init /\ [][ReportNext]_vars

\* ------------------------------------------------ register and calendar
\* Days on which the workbook is opened: 31 and 30 days before the two
\* due dates (354 days after 2023-12-31 and 2024-01-01), the due dates, and
\* the day after.
TodayInputs ==
  {Num(45614), Num(45615), Num(45616), Num(45645), Num(45646), Num(45647)}

HawlNext ==
  \/ \E i \in 1..SummaryRows, rec \in RecordInputs :
       UpsertRecord(i, rec.date, rec.goldPrice, rec.goldOz)
  \/ \E t \in TodayInputs : NewDay(t)

HawlSpec == Init /\ [][HawlNext]_vars

\* --------------------------------------------- reports and service slots
\* A service slot is emptied or set to a service the ledger uses.
ServiceSlotInputs == {Txt(<<>>), Wise}

ServiceNext ==
  \/ \E r \in 1..PaymentRows, e \in EntryInputs : SetEntry(r, e)
  \/ \E p \in PersonInputs : SelectPerson(p)
  \/ \E y \in YearInputs : SelectYear(y)
  \/ \E i \in 1..SettingsSlots, v \in ServiceSlotInputs : SetServiceSlot(i, v)

ServiceSpec == Init /\ [][ServiceNext]_vars

\* ------------------------------------------------ reports and type slots
\* A type slot is emptied or set to "Zakat".
TypeSlotInputs == {Txt(<<>>), Zakat}

BreakdownNext ==
  \/ \E r \in 1..PaymentRows, e \in EntryInputs : SetEntry(r, e)
  \/ \E p \in PersonInputs : SelectPerson(p)
  \/ \E y \in YearInputs : SelectYear(y)
  \/ \E i \in 1..SettingsSlots, v \in TypeSlotInputs : SetTypeSlot(i, v)

BreakdownSpec == Init /\ [][BreakdownNext]_vars

\* ------------------------------------------------- asset sheets by date
\* A snapshot row is unfilled, or holds the balances of 2023-12-31, or
\* those of 2024-01-01.
EarlierBalances(k) ==
  CASE k = "Stocks" -> Balances(<<Num(1000), Num(80)>>)
    [] k = "Cash" -> Balances(<<Num(4000), Num(200)>>)
    [] k = "Debts" -> Balances(<<Num(120), Empty, Empty, Empty, Empty, Num(80)>>)
LaterBalances(k) ==
  CASE k = "Stocks" -> Balances(<<Empty, Num(400), Empty, Empty, Empty, Num(640)>>)
    [] k = "Cash" -> Balances(<<Num(5000)>>)
    [] k = "Debts" -> Balances(<<Num(40)>>)
DatedSnapshotInputs(k) ==
  {EmptySnapshot,
   [date |-> Num(45291), balances |-> EarlierBalances(k)],
   [date |-> Num(45292), balances |-> LaterBalances(k)]}

LookupNext ==
  \/ \E d \in {Empty, Num(45291), Num(45292)} : UpsertRecord(1, d, Empty, Empty)
  \/ \E k \in Kinds, r \in 1..SnapshotRows :
       \E sn \in DatedSnapshotInputs(k) : SetSnapshot(k, r, sn.date, sn.balances)

LookupSpec == Init /\ [][LookupNext]_vars

\* ------------------------------------------------------ entering payments
\* Every way an entry gets into the ledger: typed against the alert of
\* amt_dv, or stored without one.
EntryNext ==
  \/ \E r \in 1..LedgerRows, e \in EntryInputs : SetEntry(r, e)
  \/ \E r \in 1..LedgerRows, e \in EntryInputs : EnterUnchecked(r, e)

EntrySpec == Init /\ [][EntryNext]_vars

\* ------------------------------------------------------- payment windows
\* Register rows of three successive dates, each with gold, against Zakat
\* payments before, on and between those dates and a payment of another
\* type.
WindowDates == {45291, 45293, 45295}
WindowRecordInputs ==
  {EmptyRecord}
    \cup {[date |-> Num(d), goldPrice |-> GoldPrice, goldOz |-> GoldOz] :
            d \in WindowDates}
WindowPaymentInputs ==
  {EmptyEntry,
   Payment(45290, Zakat, Num(50), Empty),
   Payment(45293, Zakat, Num(140), Num(10)),
   Payment(45294, Zakat, Num(200), Empty),
   Payment(45293, Sadaqah, Num(30), Empty)}

WindowNext ==
  \/ \E i \in 1..SummaryRows, rec \in WindowRecordInputs :
       UpsertRecord(i, rec.date, rec.goldPrice, rec.goldOz)
  \/ \E r \in 1..PaymentRows, e \in WindowPaymentInputs : SetEntry(r, e)

WindowSpec == Init /\ [][WindowNext]_vars

\* ------------------------------------------------------------- dashboard
\* Total Zakat Owed: =SUMIF(J5:J14,">"&0,J5:J14)
totalZakatOwed ==
  SumSeq([i \in 1..SummaryRows |->
    LET j == zakatDue(i) IN IF IsNum(j) /\ j.n > 0 THEN j.n ELSE 0])

\* Total <type> Paid: =SUMIF(Ledger!$B$5:$B$204,"<type>",Ledger!$H$5:$H$204)
totalPaidOfType(ty) ==
  SumSeq([r \in 1..LedgerRows |->
    IF CritEq(ledger[r].type, ty) THEN Summand(totalPaid(r)) ELSE 0])

\* Outstanding Balance: the two SUMIFs above, for "Zakat", subtracted.
outstandingBalance == totalZakatOwed - totalPaidOfType(Zakat)

\* The payments of the payment windows and a Zakat payment entered with an
\* amount but without a date: no cell of a ledger row must be filled.
DashboardPaymentInputs ==
  WindowPaymentInputs
    \cup {[EmptyEntry EXCEPT !.type = Zakat, !.amount = Num(70)]}

DashboardNext ==
  \/ \E i \in 1..SummaryRows, rec \in WindowRecordInputs :
       UpsertRecord(i, rec.date, rec.goldPrice, rec.goldOz)
  \/ \E r \in 1..PaymentRows, e \in DashboardPaymentInputs : SetEntry(r, e)

DashboardSpec == Init /\ [][DashboardNext]_vars

\* ---------------------------------------------------- appending payments
\* Register rows of two dates, each with gold; payments appended to the
\* ledger: Zakat payments on or before a register date, a Zakat payment
\* after both and a payment of another type.
AppendRecordInputs ==
  {EmptyRecord}
    \cup {[date |-> Num(d), goldPrice |-> GoldPrice, goldOz |-> GoldOz] :
            d \in {45291, 45293}}
AppendPaymentInputs == WindowPaymentInputs \ {EmptyEntry}

AppendNext ==
  \/ \E i \in 1..SummaryRows, rec \in AppendRecordInputs :
       UpsertRecord(i, rec.date, rec.goldPrice, rec.goldOz)
  \/ \E r \in 1..PaymentRows, e \in AppendPaymentInputs : AppendEntry(r, e)

AppendSpec == Init /\ [][AppendNext]_vars

\* ================================================================ claims
Dated(i) == IsNum(zk[i].date)
BlankDate(i) == zk[i].date = Empty

\* C1: for every register row with a date, zakatDue is 2.5 % of netAssets
\* when netAssets >= nisabThreshold (equality included) and 0 otherwise,
\* where nisabThreshold is goldPrice * goldNisabOz, and 0 when the gold
\* price is unfilled; zakatDue is blank when the date is blank.
C1_ZakatDue ==
  \A i \in 1..SummaryRows :
    /\ BlankDate(i) => zakatDue(i) = Txt(<<>>)
    /\ Dated(i) =>
         /\ IsNum(nisabThreshold(i))
         /\ IF zk[i].goldPrice = Empty
            THEN nisabThreshold(i).n = 0
            ELSE nisabThreshold(i).n * 10000 = zk[i].goldPrice.n * goldNisabOz.n
         /\ IsNum(zakatDue(i))
         /\ IF netAssets(i).n >= nisabThreshold(i).n
            THEN zakatDue(i).n * 1000 = netAssets(i).n * 25
            ELSE zakatDue(i).n = 0

\* A dated row whose net assets equal a positive Nisab threshold and owes.
C1_Witness ==
  \E i \in 1..SummaryRows :
    /\ Dated(i)
    /\ nisabThreshold(i).n > 0
    /\ netAssets(i).n = nisabThreshold(i).n
    /\ zakatDue(i).n > 0

\* C2: for every register row with a date, netAssets is stockTotal +
\* cashTotal + goldValue - debtTotal, goldValue being goldPrice * goldOz and
\* 0 when either gold cell is unfilled; netAssets is blank when the date is.
C2_NetAssets ==
  \A i \in 1..SummaryRows :
    /\ BlankDate(i) => netAssets(i) = Txt(<<>>)
    /\ goldValue(i) = IF zk[i].goldPrice = Empty \/ zk[i].goldOz = Empty
                      THEN Num(0)
                      ELSE Num(zk[i].goldPrice.n * zk[i].goldOz.n)
    /\ Dated(i) =>
         netAssets(i) =
           Num(stockTotal(i).n + cashTotal(i).n + goldValue(i).n - debtTotal(i).n)

\* A dated row with stocks, cash, gold and debts all present.
C2_Witness ==
  \E i \in 1..SummaryRows :
    /\ Dated(i)
    /\ stockTotal(i).n > 0 /\ cashTotal(i).n > 0
    /\ goldValue(i).n > 0 /\ debtTotal(i).n > 0

\* C3: for every dated row the status is N/A whenever zakatDue is 0,
\* whatever the balance and the payments are; otherwise Paid in Full when
\* runningBalance <= 0; otherwise Not Started when paidThisPeriod is 0;
\* otherwise Partially Paid.  One of the four values always results.
C3_Status ==
  \A i \in 1..SummaryRows :
    Dated(i) =>
      LET due == zakatDue(i).n
          paid == k_formula(i).n
          bal == l_formula(i).n
          st == status(i)
      IN  /\ st \in {StatusNA, StatusPaidInFull, StatusNotStarted, StatusPartiallyPaid}
          /\ due = 0 => st = StatusNA
          /\ due # 0 /\ bal <= 0 => st = StatusPaidInFull
          /\ due # 0 /\ bal > 0 /\ paid = 0 => st = StatusNotStarted
          /\ due # 0 /\ bal > 0 /\ paid # 0 => st = StatusPartiallyPaid

\* A dated row that owes nothing itself, carries a positive balance from
\* the row above and has payments in its period: its status is N/A.
C3_Witness ==
  \E i \in 2..SummaryRows :
    /\ Dated(i) /\ Dated(i - 1)
    /\ zakatDue(i).n = 0
    /\ k_formula(i).n > 0
    /\ l_formula(i - 1).n > 0
    /\ l_formula(i).n > 0
    /\ status(i) = StatusNA

\* What the row above contributes to a running balance.
CarriedIn(i) ==
  IF i = 1 \/ BlankDate(i - 1) THEN 0
  ELSE LET prev == l_formula(i - 1) IN IF IsNum(prev) THEN prev.n ELSE 0

\* C4: for every dated row at position i, runningBalance[i] = zakatDue[i] -
\* paidThisPeriod[i] + runningBalance[i-1], the last term being 0 at the
\* first position and when the row above has no date or no balance; the
\* value is not clamped and follows table position, not date order.
C4_RunningBalance ==
  \A i \in 1..SummaryRows :
    Dated(i) =>
      l_formula(i) = Num(zakatDue(i).n - k_formula(i).n + CarriedIn(i))

\* A dated row below a later-dated row whose balance is negative, the
\* negative balance carried in.
C4_Witness ==
  \E i \in 2..SummaryRows :
    /\ Dated(i) /\ Dated(i - 1)
    /\ zk[i].date.n < zk[i - 1].date.n
    /\ l_formula(i - 1).n < 0
    /\ l_formula(i).n = zakatDue(i).n - k_formula(i).n + l_formula(i - 1).n

\* C5: for every dated row at position i > 0, broughtForward[i] is
\* max(0, runningBalance[i-1]) (0 when that balance is blank), and 0 at the
\* first position; it is never negative, even when runningBalance is.
C5_BroughtForward ==
  \A i \in 1..SummaryRows :
    Dated(i) =>
      LET bf == n_formula(i)
      IN  /\ IsNum(bf)
          /\ bf.n >= 0
          /\ i = 1 => bf.n = 0
          /\ i > 1 =>
               LET prev == l_formula(i - 1)
               IN  bf.n = IF ~IsNum(prev) THEN 0 ELSE IF prev.n > 0 THEN prev.n ELSE 0

\* A dated row below a row with a negative balance: nothing brought forward.
C5_Witness ==
  \E i \in 2..SummaryRows :
    /\ Dated(i) /\ Dated(i - 1)
    /\ l_formula(i - 1).n < 0
    /\ n_formula(i) = Num(0)

\* amount + fees of a ledger row, an unfilled cell counted as 0.
EntryTotal(r) ==
  (IF IsNum(ledger[r].amount) THEN ledger[r].amount.n ELSE 0)
    + (IF IsNum(ledger[r].fees) THEN ledger[r].fees.n ELSE 0)
RECURSIVE TotalOver(_)
TotalOver(S) ==
  IF S = {} THEN 0
  ELSE LET r == CHOOSE x \in S : TRUE IN EntryTotal(r) + TotalOver(S \ {r})

\* The ledger rows of type Zakat dated in the window of register row i.
ZakatWindow(i) ==
  {r \in 1..LedgerRows :
     /\ ledger[r].type = Zakat
     /\ IsNum(ledger[r].date)
     /\ i > 1 => ledger[r].date.n > zk[i - 1].date.n
     /\ ledger[r].date.n <= zk[i].date.n}

RECURSIVE PrefixTotal(_)
PrefixTotal(r) == IF r = 0 THEN 0 ELSE PrefixTotal(r - 1) + EntryTotal(r)

\* C7: for every ledger position holding a total, runningTotal is the sum
\* of totalPaid over the positions up to it, in table order, a blank
\* totalPaid counting 0, whether or not rows with a blank totalPaid lie
\* between.
C7_RunningTotal ==
  \A r \in 1..LedgerRows :
    IsNum(totalPaid(r)) => ri_formula(r) = Num(PrefixTotal(r))

\* A row with a total, below a row without one, below a row with one.
C7_GapState ==
  \E r \in 3..LedgerRows :
    /\ IsNum(totalPaid(r)) /\ IsNum(totalPaid(r - 2))
    /\ ledger[r - 1] # EmptyEntry /\ ~IsNum(totalPaid(r - 1))
    /\ ri_formula(r) = totalPaid(r)

\* --------------------------------------------------------------- Reports
\* The year of a day serial of the inputs.
EntryYear(r) == IF ledger[r].date = Num(45291) THEN 2023 ELSE 2024
\* The year a filter stands for.
FilterYear == IF selYear = Num(2023) THEN 2023 ELSE 2024
\* The ledger positions holding an entry of the selected recipient (letter
\* case ignored) and, under a year filter, of that year.
Matching ==
  {r \in 1..LedgerRows :
     /\ IsTxt(ledger[r].recipient)
     /\ Len(ledger[r].recipient.s) = Len(selPerson.s)
     /\ \A k \in 1..Len(selPerson.s) :
          LowerChar(ledger[r].recipient.s[k]) = LowerChar(selPerson.s[k])
     /\ selYear = AllYears \/ (IsNum(ledger[r].date) /\ EntryYear(r) = FilterYear)}
MatchingAllYears ==
  {r \in 1..LedgerRows :
     /\ IsTxt(ledger[r].recipient)
     /\ Len(ledger[r].recipient.s) = Len(selPerson.s)
     /\ \A k \in 1..Len(selPerson.s) :
          LowerChar(ledger[r].recipient.s[k]) = LowerChar(selPerson.s[k])}

\* C8: with a recipient selected, totalGiven is the sum of totalPaid and
\* transactionCount the number of the ledger entries of that recipient
\* (of the filtered year, under a year filter): with All Years the whole
\* per-recipient sum and count, with a year at most those.
C8_TotalGiven ==
  selPerson # Txt(<<>>) =>
    /\ totalGiven = Num(TotalOver(Matching))
    /\ transactionCount = Num(Cardinality(Matching))
    /\ TotalOver(Matching) <= TotalOver(MatchingAllYears)
    /\ Cardinality(Matching) <= Cardinality(MatchingAllYears)

\* A recipient and a year selected, an entry of both in the ledger.
C8_YearState ==
  /\ selPerson # Txt(<<>>)
  /\ selYear # AllYears
  /\ Matching # {}
  /\ IsErr(totalGiven)
  /\ transactionCount = Num(Cardinality(Matching))

\* The n-th smallest position of a set of positions.
NthOf(S, n) == CHOOSE r \in S : Cardinality({q \in S : q < r}) = n - 1
\* A ledger field as it stands: nothing for an unfilled cell.
Shown(v) == IF v = Empty THEN Txt(<<>>) ELSE v

\* C9: with a recipient selected, detail row n shows, unmodified, the
\* fields of the entry at the n-th smallest matching position, and is
\* blank beyond the number of matches; positions increase down the table
\* and matches beyond the last row are not shown.
C9_DetailView ==
  selPerson # Txt(<<>>) =>
    \A n \in 1..DetailRows :
      IF n <= Cardinality(Matching)
      THEN /\ detailHelper(n) = Num(NthOf(Matching, n))
           /\ \A f \in DetailFields :
                detailCell(n, f) = Shown(LedgerCell(NthOf(Matching, n), f))
      ELSE /\ detailHelper(n) = Txt(<<>>)
           /\ \A f \in DetailFields : detailCell(n, f) = Txt(<<>>)

\* A detail row of an entry whose service was left out: it shows 0.
C9_BlankFieldState ==
  /\ selPerson # Txt(<<>>)
  /\ \E n \in 1..DetailRows :
       /\ n <= Cardinality(Matching)
       /\ detailHelper(n) = Num(NthOf(Matching, n))
       /\ ledger[NthOf(Matching, n)].service = Empty
       /\ detailCell(n, "service") = Num(0)

\* ---------------------------------------------------------------- search
\* The needle occurs in the text of a cell, letter case ignored.
ContainsCI(cell) ==
  /\ IsTxt(cell)
  /\ \E k \in 1..Len(cell.s) :
       /\ k + Len(needle.s) - 1 <= Len(cell.s)
       /\ \A j \in 1..Len(needle.s) :
            LowerChar(cell.s[k + j - 1]) = LowerChar(needle.s[j])
FieldsContain(r) ==
  ContainsCI(ledger[r].recipient) \/ ContainsCI(ledger[r].notes)
    \/ ContainsCI(ledger[r].type)

\* C10 (as the workbook does it): with a non-empty needle the highlighted
\* rows are exactly the rows whose recipient, notes or type contains the
\* needle, letter case ignored (service, date and amounts are not
\* searched); with an empty needle no row is highlighted.
C10_Search ==
  \A r \in 1..LedgerRows :
    hl_formula(r) = (needle # Txt(<<>>) /\ FieldsContain(r))

\* A needle in capitals: a row whose recipient holds it in small letters
\* is highlighted, a filled row without it is not.
C10_Witness ==
  /\ needle = AL
  /\ \E r, q \in 1..LedgerRows :
       /\ ledger[r].recipient = Al /\ hl_formula(r)
       /\ ledger[q] # EmptyEntry /\ ~hl_formula(q)

\* C10 (as stated): as above for a non-empty needle; with an empty needle
\* every entry matches.
C10_EmptyNeedleMatchesAll ==
  \A r \in 1..LedgerRows :
    ledger[r] # EmptyEntry =>
      hl_formula(r) = (needle = Txt(<<>>) \/ FieldsContain(r))

\* The rows the search highlights.
Highlighted == {r \in 1..LedgerRows : hl_formula(r)}

\* C11: for every non-empty needle the count the search shows is the
\* number of highlighted rows; a row that holds the needle in more than
\* one of recipient, notes and type counts once.
C11_SearchCount ==
  needle # Txt(<<>>) =>
    search_count = Txt(DigitsOf(Cardinality(Highlighted)) \o MatchingRowsHighlighted)

\* One row is highlighted, holding the needle in its recipient and in its
\* notes, and the count shown is 2.
C11_CountedTwice ==
  /\ needle = AL
  /\ Cardinality(Highlighted) = 1
  /\ \E r \in Highlighted :
       /\ ContainsCI(ledger[r].recipient)
       /\ ContainsCI(ledger[r].notes)
  /\ search_count = Txt(<<"2">> \o MatchingRowsHighlighted)

\* ----------------------------------------------------------- Hawl tracker
\* The dates of the register.
RegisterDates == {zk[i].date.n : i \in {j \in 1..SummaryRows : Dated(j)}}

UsingService(i) == {r \in 1..LedgerRows : ledger[r].service = serviceSlots[i]}
RECURSIVE SumOver(_, _)
SumOver(S, f) ==
  IF S = {} THEN 0
  ELSE LET r == CHOOSE x \in S : TRUE
       IN  (IF IsNum(ledger[r][f]) THEN ledger[r][f].n ELSE 0) + SumOver(S \ {r}, f)
\* The four cells of the summary row of slot i.
ServiceRow(i) ==
  <<serviceName(i), serviceAmount(i), serviceFees(i), serviceCount(i)>>
\* What the summary row of slot i is to hold.
ServiceRowOk(i) ==
  IF serviceSlots[i] = Txt(<<>>)
  THEN ServiceRow(i) = <<Txt(<<>>), Txt(<<>>), Txt(<<>>), Txt(<<>>)>>
  ELSE ServiceRow(i) = <<serviceSlots[i], Num(SumOver(UsingService(i), "amount")),
                         Num(SumOver(UsingService(i), "fees")),
                         Num(Cardinality(UsingService(i)))>>

\* C13: in every state, whatever recipient and year filter are selected,
\* the summary row of every non-blank service slot holds the sum of amount,
\* the sum of fees and the number of the ledger entries of that service,
\* over the whole ledger (and is blank for a blank slot): the rows are
\* determined by the ledger and the service slots alone, so two queries
\* that differ only in recipient or year filter show the same summary.
C13_ServiceSummary == \A i \in 1..SettingsSlots : ServiceRowOk(i)

\* A recipient and a year are selected that leave out an entry of a
\* service whose summary row counts it.
C13_Witness ==
  /\ selPerson = Bo
  /\ selYear = Num(2023)
  /\ \E i \in 1..SettingsSlots, r \in 1..LedgerRows :
       /\ serviceSlots[i] = Wise
       /\ ledger[r].service = Wise /\ ledger[r].recipient = Al
       /\ serviceAmount(i).n >= ledger[r].amount.n
       /\ serviceFees(i).n >= 1
       /\ serviceCount(i).n >= 1

\* ----------------------------------------------------- Reports: breakdown
\* The matching ledger positions whose type is that of slot i.
MatchingOfType(i) == {r \in Matching : ledger[r].type = typeSlots[i]}

\* C14: the breakdown row of a blank type slot is blank; the row of a
\* non-blank slot names the slot's type and, with a recipient selected,
\* holds the sum of totalPaid over the ledger entries of that recipient
\* and that type that satisfy the year predicate.
C14_Breakdown ==
  \A i \in 1..SettingsSlots :
    IF typeSlots[i] = Txt(<<>>)
    THEN breakdownType(i) = Txt(<<>>) /\ breakdownAmount(i) = Txt(<<>>)
    ELSE /\ breakdownType(i) = typeSlots[i]
         /\ selPerson # Txt(<<>>) =>
              breakdownAmount(i) = Num(TotalOver(MatchingOfType(i)))

\* A recipient is selected who has an entry of a slot's type, and the
\* slot's amount is an error.
C14_ErrorState ==
  /\ selPerson # Txt(<<>>)
  /\ selYear = AllYears
  /\ \E i \in 1..SettingsSlots :
       /\ TotalOver(MatchingOfType(i)) > 0
       /\ IsErr(breakdownAmount(i))

\* ------------------------------------------------------- duplicate dates
\* C15: a register row is flagged as duplicate iff its date is not blank
\* and another row of the table holds the same date, whichever of the two
\* stands above and whatever the other cells hold; a row without a date is
\* never flagged; the derived cells of a flagged row are computed all the
\* same.
C15_DuplicateDate ==
  \A i \in 1..SummaryRows :
    LET flagged == duplicateDate(i)
    IN  /\ flagged <=>
             (Dated(i) /\ \E j \in 1..SummaryRows : j # i /\ zk[j].date = zk[i].date)
        /\ BlankDate(i) => ~flagged
        /\ flagged =>
             /\ IsNum(netAssets(i)) /\ IsNum(nisabThreshold(i))
             /\ IsNum(zakatDue(i)) /\ IsNum(k_formula(i))
             /\ IsNum(l_formula(i)) /\ IsNum(n_formula(i))
             /\ status(i) \in {StatusNA, StatusPaidInFull, StatusNotStarted,
                               StatusPartiallyPaid}

\* Two rows of the same date and different gold cells, both flagged, the
\* upper one owing; a third row of another date, not flagged.
C15_Witness ==
  \E i, j, k \in 1..SummaryRows :
    /\ i < j
    /\ Dated(i) /\ zk[i].date = zk[j].date /\ zk[i].goldPrice # zk[j].goldPrice
    /\ duplicateDate(i) /\ duplicateDate(j)
    /\ zakatDue(i).n + zakatDue(j).n > 0
    /\ Dated(k) /\ ~duplicateDate(k)

\* ---------------------------------------------------------- asset lookups
RECURSIVE BalanceSum(_, _)
BalanceSum(b, S) ==
  IF S = {} THEN 0
  ELSE LET a == CHOOSE x \in S : TRUE
       IN  (IF IsNum(b[a]) THEN b[a].n ELSE 0) + BalanceSum(b, S \ {a})
\* The rows of sheet k that hold a snapshot of date d.
SnapshotsOf(k, d) == {r \in 1..SnapshotRows : assets[k][r].date = Num(d)}
\* What a lookup of date d in sheet k is to return.
LookupOk(k, d, v) ==
  /\ SnapshotsOf(k, d) = {} => v = Num(0)
  /\ \A r \in SnapshotsOf(k, d) :
       (\A q \in SnapshotsOf(k, d) : r <= q)
         => v = Num(BalanceSum(assets[k][r].balances, Accounts))

\* C16: for each of Stocks, Cash and Debts and every date, totalFor is the
\* sum of the balances of the snapshot stored under exactly that date (the
\* first such row if several hold the date) and 0, not an error, when no
\* snapshot holds the date; stockTotal, cashTotal and debtTotal of a
\* register row are these lookups on the row's date, 0 for a row without
\* a date.
C16_TotalFor ==
  /\ \A k \in Kinds : \A d \in Dates : LookupOk(k, d, totalFor(k, Num(d)))
  /\ \A i \in 1..SummaryRows :
       IF Dated(i)
       THEN /\ LookupOk("Stocks", zk[i].date.n, stockTotal(i))
            /\ LookupOk("Cash", zk[i].date.n, cashTotal(i))
            /\ LookupOk("Debts", zk[i].date.n, debtTotal(i))
       ELSE stockTotal(i) = Num(0) /\ cashTotal(i) = Num(0) /\ debtTotal(i) = Num(0)

\* The register row is dated 2024-01-01; the Stocks sheet holds snapshots
\* of both dates, the earlier one above, and the lookup returns the later
\* one's total; the Cash sheet holds a snapshot of 2023-12-31 only and the
\* lookup returns 0.
C16_Witness ==
  /\ zk[1].date = Num(45292)
  /\ assets["Stocks"][1].date = Num(45291)
  /\ assets["Stocks"][2].date = Num(45292)
  /\ stockTotal(1) = Num(1040)
  /\ SnapshotsOf("Cash", 45291) # {} /\ SnapshotsOf("Cash", 45292) = {}
  /\ cashTotal(1) = Num(0)

\* ------------------------------------------------------ entering payments
\* C17: an entry with a negative amount or fee never gets into the ledger:
\* in every state every stored amount and fee is >= 0 (or unfilled) and
\* every totalPaid is blank or above 0.
C17_NoNegativeStored ==
  \A r \in 1..LedgerRows :
    /\ ValidAmount(ledger[r].amount)
    /\ ValidAmount(ledger[r].fees)
    /\ LET h == totalPaid(r) IN h = Txt(<<>>) \/ (IsNum(h) /\ h.n > 0)

\* A negative fee is stored.
C17_NegativeStored ==
  \E r \in 1..LedgerRows :
    /\ IsNum(ledger[r].fees) /\ ledger[r].fees.n < 0
    /\ IsNum(totalPaid(r))

\* ------------------------------------------------ reports without a match
\* The cells of the report a query fills.
DetailBlank ==
  \A n \in 1..DetailRows, f \in DetailFields : detailCell(n, f) = Txt(<<>>)

\* C18: no report query fails.  With no recipient selected totalGiven,
\* transactionCount, the amount of every non-blank type slot and the
\* all-types total are the placeholder; with a recipient who has no ledger
\* entry (or none in the filtered year) totalGiven and transactionCount are
\* 0, every breakdown amount is 0 and every detail row is blank.
C18_QueryNeverFails ==
  /\ selPerson = Txt(<<>>) =>
       /\ totalGiven = Dash
       /\ transactionCount = Dash
       /\ allTypesTotal = Dash
       /\ \A i \in 1..SettingsSlots :
            typeSlots[i] # Txt(<<>>) => breakdownAmount(i) = Dash
  /\ (selPerson # Txt(<<>>) /\ Matching = {}) =>
       /\ totalGiven = Num(0)
       /\ transactionCount = Num(0)
       /\ \A i \in 1..SettingsSlots :
            typeSlots[i] # Txt(<<>>) => breakdownAmount(i) = Num(0)
       /\ DetailBlank

\* What does hold without a recipient: every cell is the placeholder.
C18_UnsetPlaceholders ==
  selPerson = Txt(<<>>) =>
    /\ totalGiven = Dash
    /\ transactionCount = Dash
    /\ allTypesTotal = Dash
    /\ \A i \in 1..SettingsSlots :
         typeSlots[i] # Txt(<<>>) => breakdownAmount(i) = Dash

\* What does hold for a recipient without a matching entry: the count is 0
\* and the detail rows are blank; under All Years totalGiven is 0 too.
C18_NoMatchCountAndDetail ==
  (selPerson # Txt(<<>>) /\ Matching = {}) =>
    /\ transactionCount = Num(0)
    /\ DetailBlank
    /\ selYear = AllYears => totalGiven = Num(0)

\* The selected recipient occurs in no ledger entry, all years are shown,
\* totalGiven and transactionCount are 0 and the detail rows blank, and
\* the amount of a type slot is an error.
C18_ErrorState ==
  /\ selPerson # Txt(<<>>)
  /\ selYear = AllYears
  /\ Matching = {}
  /\ totalGiven = Num(0)
  /\ transactionCount = Num(0)
  /\ DetailBlank
  /\ \E i \in 1..SettingsSlots :
       typeSlots[i] # Txt(<<>>) /\ IsErr(breakdownAmount(i))

\* The selected recipient has entries but none in the filtered year, and
\* totalGiven is an error.
C18_YearErrorState ==
  /\ selPerson # Txt(<<>>)
  /\ selYear # AllYears
  /\ MatchingAllYears # {}
  /\ Matching = {}
  /\ IsErr(totalGiven)

\* ------------------------------------------------- overpayment carried on
\* C19: for dated rows at positions i-1 and i: when runningBalance[i-1] is
\* not negative, runningBalance[i] = zakatDue[i] - paidThisPeriod[i] +
\* broughtForward[i]; when it is negative, broughtForward[i] is 0 and
\* runningBalance[i] = zakatDue[i] - paidThisPeriod[i] + runningBalance[i-1],
\* which is below zakatDue[i] - paidThisPeriod[i] + broughtForward[i].
C19_OverpaymentCarried ==
  \A i \in 2..SummaryRows :
    Dated(i) /\ Dated(i - 1) =>
      LET prev == l_formula(i - 1)
          own  == zakatDue(i).n - k_formula(i).n
          bal  == l_formula(i)
          bf   == n_formula(i)
      IN  /\ IsNum(prev) /\ IsNum(bal) /\ IsNum(bf)
          /\ prev.n >= 0 => bal.n = own + bf.n
          /\ prev.n < 0 =>
               /\ bf.n = 0
               /\ bal.n = own + prev.n
               /\ bal.n < own + bf.n

\* Two dated rows, the upper overpaid, the lower with an amount due: the
\* lower balance is the amount due less the payments and the overpayment,
\* with nothing shown as brought forward.
C19_Witness ==
  \E i \in 2..SummaryRows :
    /\ Dated(i) /\ Dated(i - 1)
    /\ l_formula(i - 1).n < 0
    /\ zakatDue(i).n > 0
    /\ n_formula(i) = Num(0)
    /\ l_formula(i) = Num(zakatDue(i).n - k_formula(i).n + l_formula(i - 1).n)
    /\ l_formula(i).n < zakatDue(i).n - k_formula(i).n

\* ------------------------------------------------------- payment windows
\* The rows 1..n of the register are dated, with strictly increasing dates.
Increasing(n) ==
  /\ \A i \in 1..n : Dated(i)
  /\ \A i \in 2..n : zk[i - 1].date.n < zk[i].date.n
\* The ledger rows of type Zakat dated on or before the date of row n.
ZakatUpTo(n) ==
  {r \in 1..LedgerRows :
     /\ ledger[r].type = Zakat
     /\ IsNum(ledger[r].date)
     /\ ledger[r].date.n <= zk[n].date.n}
RECURSIVE DueUpTo(_)
DueUpTo(n) == IF n = 0 THEN 0 ELSE DueUpTo(n - 1) + zakatDue(n).n

\* C20: when the rows 1..n are dated with strictly increasing dates, every
\* Zakat entry dated on or before the date of row n lies in the window of
\* exactly one of those rows, whose paidThisPeriod is the total of its
\* window, and runningBalance[n] is the sum of zakatDue over the rows 1..n
\* less the totalPaid of all those entries.
C20_WindowsPartition ==
  \A n \in 1..SummaryRows :
    Increasing(n) =>
      /\ \A r \in ZakatUpTo(n) :
           Cardinality({i \in 1..n : r \in ZakatWindow(i)}) = 1
      /\ \A i \in 1..n : k_formula(i) = Num(TotalOver(ZakatWindow(i)))
      /\ l_formula(n) = Num(DueUpTo(n) - TotalOver(ZakatUpTo(n)))

\* Three rows of increasing dates, a Zakat payment in the window of the
\* first and one in the window of a later row, and the last balance the
\* three amounts due less both payments.
C20_Witness ==
  /\ SummaryRows >= 3
  /\ Increasing(3)
  /\ \E r, q \in 1..LedgerRows :
       /\ r \in ZakatWindow(1) /\ EntryTotal(r) > 0
       /\ \E i \in 2..3 : q \in ZakatWindow(i) /\ EntryTotal(q) > 0
       /\ l_formula(3) = Num(DueUpTo(3) - EntryTotal(r) - EntryTotal(q))
  /\ DueUpTo(3) > 0

\* ------------------------------------------------------------- dashboard
\* The register holds its records in the rows 1..n, with strictly
\* increasing dates, and nothing below.
RecordsAre(n) ==
  /\ Increasing(n)
  /\ \A i \in (n + 1)..SummaryRows : BlankDate(i)
\* No Zakat entry is dated after the date of row n.
NoneAfter(n) ==
  \A r \in 1..LedgerRows :
    (ledger[r].type = Zakat /\ IsNum(ledger[r].date)) =>
      ledger[r].date.n <= zk[n].date.n

C21_AllDated ==
  \A n \in 1..SummaryRows :
    (/\ RecordsAre(n) /\ NoneAfter(n)
     /\ \A r \in 1..LedgerRows :
          (ledger[r].type = Zakat /\ IsNum(totalPaid(r))) =>
            IsNum(ledger[r].date)) =>
      l_formula(n) = Num(outstandingBalance)

C22_GapBreaksChain ==
  \A i \in 2..SummaryRows :
    (Dated(i) /\ BlankDate(i - 1)) =>
      /\ l_formula(i) = Num(zakatDue(i).n - k_formula(i).n)
      /\ n_formula(i) = Num(0)

\* A dated row with a deficit, a row without a date, a dated row: the
\* deficit appears neither in the lower balance nor as brought forward.
C22_Witness ==
  \E i \in 3..SummaryRows :
    /\ Dated(i) /\ BlankDate(i - 1) /\ Dated(i - 2)
    /\ l_formula(i - 2).n > 0
    /\ l_formula(i) = Num(zakatDue(i).n - k_formula(i).n)
    /\ n_formula(i) = Num(0)

\* --------------------------------------------- breakdown against the total
\* The non-blank type slots, and whether they are pairwise distinct.
FilledSlots == {i \in 1..SettingsSlots : typeSlots[i] # Txt(<<>>)}
SlotsDistinct ==
  \A i, j \in FilledSlots : i # j => ~SameText(typeSlots[i].s, typeSlots[j].s)
\* Every matching entry's type stands in a slot.
TypesKnown ==
  \A r \in Matching : \E i \in FilledSlots : ledger[r].type = typeSlots[i]
RECURSIVE AmountsOver(_)
AmountsOver(S) ==
  IF S = {} THEN 0
  ELSE LET i == CHOOSE x \in S : TRUE
       IN  breakdownAmount(i).n + AmountsOver(S \ {i})

\* C23: with a recipient selected, the type slots pairwise distinct and
\* the type of every matching entry in a slot, the breakdown amounts of the
\* non-blank slots add up to totalGiven for the same recipient and year
\* filter.
C23_BreakdownSum ==
  (selPerson # Txt(<<>>) /\ SlotsDistinct /\ TypesKnown) =>
    /\ IsNum(totalGiven)
    /\ \A i \in FilledSlots : IsNum(breakdownAmount(i))
    /\ AmountsOver(FilledSlots) = totalGiven.n

\* All years shown, distinct slots holding the types of the recipient's
\* entries, totalGiven their sum, and the amount of every slot an error.
C23_ErrorState ==
  /\ selPerson # Txt(<<>>)
  /\ selYear = AllYears
  /\ SlotsDistinct /\ TypesKnown
  /\ Matching # {}
  /\ totalGiven = Num(TotalOver(Matching))
  /\ totalGiven.n > 0
  /\ FilledSlots # {}
  /\ \A i \in FilledSlots : IsErr(breakdownAmount(i))

\* ---------------------------------------------------- appending payments
\* v is not above w, for the values of one cell after and before a step
\* that leaves the row's date as it is.
NotAbove(v, w) == IF IsNum(w) THEN IsNum(v) /\ v.n <= w.n ELSE v = w
\* Entry e is dated after every date of the register.
AfterEveryRecord(e) ==
  /\ IsNum(e.date)
  /\ \A i \in 1..SummaryRows : Dated(i) => e.date.n > zk[i].date.n

\* C24: right after a payment with amount and fees >= 0 was appended, no
\* record's runningBalance or broughtForward is above what it was before,
\* every record's zakatDue, netAssets and nisabThreshold is what it was,
\* and every cell of every record is what it was when the payment is not
\* of type Zakat or is dated after every record.
C24_Append ==
  prior.row # 0 =>
    LET e == ledger[prior.row]
    IN  (ValidAmount(e.amount) /\ ValidAmount(e.fees)) =>
          \A i \in 1..SummaryRows :
            LET now == RegisterCells(i)
                was == prior.cells[i]
            IN  /\ NotAbove(now.runningBalance, was.runningBalance)
                /\ NotAbove(now.broughtForward, was.broughtForward)
                /\ now.zakatDue = was.zakatDue
                /\ now.netAssets = was.netAssets
                /\ now.nisabThreshold = was.nisabThreshold
                /\ (~CritEq(e.type, Zakat) \/ AfterEveryRecord(e)) => now = was

\* A Zakat payment was appended that lies in the window of the first of
\* two dated rows: both runningBalances are lower than before by its
\* total, and the second row's broughtForward is lower too.
C24_Witness ==
  /\ prior.row # 0
  /\ Dated(1) /\ Dated(2)
  /\ prior.row \in ZakatWindow(1)
  /\ EntryTotal(prior.row) > 0
  /\ \A i \in 1..2 :
       l_formula(i).n = prior.cells[i].runningBalance.n - EntryTotal(prior.row)
  /\ n_formula(2).n < prior.cells[2].broughtForward.n

\* A payment of another type was appended, with a total, and every cell of
\* the dated rows is as before.
C24_OtherTypeState ==
  /\ prior.row # 0
  /\ Dated(1)
  /\ ledger[prior.row].type = Sadaqah
  /\ EntryTotal(prior.row) > 0
  /\ \A i \in 1..SummaryRows : RegisterCells(i) = prior.cells[i]

====
